---------------------------- MODULE Spec2Model ----------------------------
(***************************************************************************)
(* A model of the knapsack decision-diagram model of vcoppe/knapsack:      *)
(* the exact DP model (Knapsack), its relaxation (KnapsackRelax) and the   *)
(* clustering-based compression (KnapsackCompression).                     *)
(*                                                                         *)
(* Rust vectors are modelled as functions over 0..len-1, so that item ids, *)
(* depths and cluster ids keep the values they have in the source.  An     *)
(* Option<T> is modelled as a set with at most one element ({} is None).   *)
(* A call that may panic returns the set of its results ({} is a panic).   *)
(***************************************************************************)
EXTENDS Integers, Sequences, FiniteSets, TLC

VARIABLES
    problem,      \* the Knapsack the engine solves: [instance, order]
    depth,        \* depth of the layer the engine has compiled for `problem`
    layer,        \* nodes of that layer: [state, value, path]
    compression,  \* the KnapsackCompression (a record), or NoCompression
    meta_depth,   \* depth of the layer compiled for the meta-problem
    meta_layer,   \* nodes of that layer
    compressed,   \* compress applied to the incoming states of meta_depth
    merged        \* the last call of KnapsackRelax::merge: [states, result]

vars == <<problem, depth, layer, compression, meta_depth, meta_layer, compressed, merged>>

-----------------------------------------------------------------------------
(* Bounds of the model. *)

MaxItems == 2

MaxWeight == 2

MaxProfit == 2

MaxCapacity == 3

MaxMerge == 2

(* isize::MAX, the initial value of every cluster's minimum.  The model    *)
(* keeps the largest integer TLC represents; what the code needs of it is  *)
(* only that it exceeds every weight.                                      *)
ISIZE_MAX == 2147483647

-----------------------------------------------------------------------------
(* Helpers of the model (arithmetic on finite sets). *)

Max(S) == CHOOSE x \in S : \A y \in S : y <= x

Min(S) == CHOOSE x \in S : \A y \in S : x <= y

RECURSIVE Sum(_, _)
Sum(f, S) == IF S = {} THEN 0
             ELSE LET x == CHOOSE y \in S : TRUE IN f[x] + Sum(f, S \ {x})

RECURSIVE SeqsUpTo(_, _)
SeqsUpTo(S, n) == IF n = 0 THEN {<<>>}
                  ELSE LET shorter == SeqsUpTo(S, n - 1)
                       IN shorter \cup {Append(q, x) : q \in shorter, x \in S}

-----------------------------------------------------------------------------
(* instance.rs: KnapsackInstance {nb_items, capacity, weight, profit}. *)

KnapsackInstance(n, c, w, p) ==
    [nb_items |-> n, capacity |-> c, weight |-> w, profit |-> p]

(* model.rs: KnapsackState {depth, capacity}. *)
KnapsackState(d, c) == [depth |-> d, capacity |-> c]

(* ddo::Decision {variable, value}. *)
Decision(var, val) == [variable |-> var, value |-> val]

-----------------------------------------------------------------------------
(* Knapsack::new: order = 0..nb_items sorted (unstable) by the key         *)
(* OrderedFloat((-profit[i]) as f64 / weight[i] as f64).                    *)
(* The key is modelled by its class and its fraction:                      *)
(*   weight > 0              finite, -profit/weight                        *)
(*   weight = 0, profit > 0  -infinity  (below every finite key)           *)
(*   weight = 0, profit = 0  NaN        (OrderedFloat: above every key)    *)
(*   weight = 0, profit < 0  +infinity                                     *)
(* Two finite keys are compared by cross-multiplication, which agrees with *)
(* the comparison of the two binary64 quotients for integers this small.   *)

key_class(instance, i) ==
    IF instance.weight[i] > 0 THEN 1
    ELSE IF instance.profit[i] > 0 THEN 0
    ELSE IF instance.profit[i] < 0 THEN 2
    ELSE 3

key_le(instance, i, j) ==
    LET ci == key_class(instance, i)
        cj == key_class(instance, j)
    IN  IF ci # cj THEN ci < cj
        ELSE IF ci # 1 THEN TRUE
        ELSE instance.profit[i] * instance.weight[j]
                >= instance.profit[j] * instance.weight[i]

ItemPermutations(n) ==
    {f \in [0 .. n - 1 -> 0 .. n - 1] : \A a, b \in 0 .. n - 1 : a # b => f[a] # f[b]}

(* The orders sort_unstable_by_key may produce: every permutation that is  *)
(* sorted by the key (the order of items with equal keys is unspecified).  *)
sorted_orders(instance) ==
    {o \in ItemPermutations(instance.nb_items) :
        \A a, b \in 0 .. instance.nb_items - 1 :
            a < b => key_le(instance, o[a], o[b])}

KnapsackNew(instance) ==
    {[instance |-> instance, order |-> o] : o \in sorted_orders(instance)}

-----------------------------------------------------------------------------
(* impl Problem for Knapsack *)

nb_variables(pb) == pb.instance.nb_items

initial_state(pb) == KnapsackState(0, pb.instance.capacity)

initial_value(pb) == 0

transition(pb, state, decision) ==
    KnapsackState(state.depth + 1,
                  state.capacity - decision.value * pb.instance.weight[decision.variable])

(* A variant of transition_cost that reads the weight of the item. *)
transition_cost_of_weight(pb, state, decision) ==
    decision.value * pb.instance.weight[decision.variable]

transition_cost(pb, state, decision) ==
    decision.value * pb.instance.profit[decision.variable]

(* A variant of next_variable that does not go through the order. *)
next_variable_unordered(pb, d) ==
    IF d < pb.instance.nb_items THEN {d} ELSE {}

next_variable(pb, d) ==
    IF d < pb.instance.nb_items THEN {pb.order[d]} ELSE {}

(* A variant of for_each_in_domain that offers value 1 in every state. *)
for_each_in_domain_unguarded(pb, variable, state) ==
    {Decision(variable, 0), Decision(variable, 1)}

for_each_in_domain(pb, variable, state) ==
    {Decision(variable, 0)}
        \cup (IF state.capacity >= pb.instance.weight[variable]
              THEN {Decision(variable, 1)} ELSE {})

-----------------------------------------------------------------------------
(* impl Relaxation for KnapsackRelax (pb is the relaxation's own copy of   *)
(* the problem).                                                           *)

(* merge: `states` is the iterator, a sequence in iteration order.         *)
(* states.next() takes the first state for the depth; the capacity is the  *)
(* maximum over what the iterator still holds after that.                  *)
merge(pb, states) ==
    LET first == IF states = <<>> THEN {} ELSE {Head(states)}
        rest  == IF states = <<>> THEN <<>> ELSE Tail(states)
        caps  == {rest[k].capacity : k \in 1 .. Len(rest)}
    IN  KnapsackState(IF first = {} THEN 0 ELSE Head(states).depth,
                      IF caps = {} THEN pb.instance.capacity ELSE Max(caps))

(* floor(capacity as f64 / weight as f64 * profit as f64), for             *)
(* 0 < capacity < weight.  For operands below 22 the binary64 result has   *)
(* the floor of the exact quotient (the first difference is 15/22*22).     *)
item_profit_floor(capacity, weight, profit) == (capacity * profit) \div weight

RECURSIVE fast_upper_bound_loop(_, _, _, _)
fast_upper_bound_loop(pb, d, max_profit, capacity) ==
    IF capacity > 0 /\ d < pb.instance.nb_items
    THEN LET item == pb.order[d]
         IN  IF capacity >= pb.instance.weight[item]
             THEN fast_upper_bound_loop(pb, d + 1,
                                        max_profit + pb.instance.profit[item],
                                        capacity - pb.instance.weight[item])
             ELSE fast_upper_bound_loop(pb, d + 1,
                                        max_profit + item_profit_floor(capacity,
                                                        pb.instance.weight[item],
                                                        pb.instance.profit[item]),
                                        0)
    ELSE max_profit

fast_upper_bound(pb, state) ==
    fast_upper_bound_loop(pb, state.depth, 0, state.capacity)

-----------------------------------------------------------------------------
(* The engine (external): it compiles the exact decision diagram of a      *)
(* problem layer by layer, through the Problem contract only, and asks the *)
(* relaxation for the rough upper bound (rub) of every node it creates.    *)

Node(pb, state, value, path) ==
    [state |-> state, value |-> value, path |-> path,
     rub |-> fast_upper_bound(pb, state)]

root_layer(pb) == {Node(pb, initial_state(pb), initial_value(pb), <<>>)}

children(pb, var, node) ==
    {Node(pb,
          transition(pb, node.state, d),
          node.value + transition_cost(pb, node.state, d),
          Append(node.path, d)) : d \in for_each_in_domain(pb, var, node.state)}

next_layer(pb, var, nodes) == UNION {children(pb, var, node) : node \in nodes}

-----------------------------------------------------------------------------
(* resolution/compression.rs: KnapsackCompression. *)

(* Variants of compute_meta_weight: the maximum of the cluster; and the    *)
(* weight of the cluster's last item (the assignment without the min).     *)
compute_meta_weight_max(pb, membership, n_meta_items) ==
    LET meta_weight ==
            [j \in 0 .. n_meta_items - 1 |->
                Max({0} \cup {pb.instance.weight[i] :
                        i \in {k \in DOMAIN membership : membership[k] = j}})]
    IN  [i \in 0 .. pb.instance.nb_items - 1 |-> meta_weight[membership[i]]]

compute_meta_weight_last(pb, membership, n_meta_items) ==
    [i \in 0 .. pb.instance.nb_items - 1 |->
        pb.instance.weight[Max({k \in DOMAIN membership : membership[k] = membership[i]})]]

(* compute_meta_weight: meta_weight[j] starts at isize::MAX and takes the  *)
(* minimum with the weight of every item i of cluster j = membership[i];   *)
(* the result gives every item the minimum of its cluster.                 *)
compute_meta_weight(pb, membership, n_meta_items) ==
    LET meta_weight ==
            [j \in 0 .. n_meta_items - 1 |->
                Min({ISIZE_MAX} \cup {pb.instance.weight[i] :
                        i \in {k \in DOMAIN membership : membership[k] = j}})]
    IN  [i \in 0 .. pb.instance.nb_items - 1 |-> meta_weight[membership[i]]]

(* compute_meta_states: the loop `while let Some(var) = next_variable(depth)`: *)
(* every state of `current` adds its capacity to map[state.depth], and     *)
(* `next` collects the transitions of the decisions of for_each_in_domain. *)
RECURSIVE compute_meta_states_loop(_, _, _, _)
compute_meta_states_loop(meta_pb, d, current, map) ==
    IF next_variable(meta_pb, d) = {} THEN map
    ELSE LET var == CHOOSE v \in next_variable(meta_pb, d) : TRUE
         IN  compute_meta_states_loop(
                 meta_pb, d + 1,
                 UNION {{transition(meta_pb, state, dec) :
                            dec \in for_each_in_domain(meta_pb, var, state)} :
                        state \in current},
                 [k \in DOMAIN map |->
                     map[k] \cup {state.capacity :
                                     state \in {x \in current : x.depth = k}}])

compute_meta_states(meta_pb) ==
    compute_meta_states_loop(meta_pb, 0, {initial_state(meta_pb)},
                             [k \in 0 .. meta_pb.instance.nb_items - 1 |-> {}])

(* KnapsackCompression::new, given the membership the clustering returns   *)
(* (kmeans is external: any assignment of the items to cluster ids below   *)
(* n_meta_items).  The field `problem` is a reference to the Knapsack it   *)
(* is built from, which is the variable problem; the record keeps the      *)
(* arguments of compute_meta_weight beside the fields of the struct.       *)
KnapsackCompressionNew(pb, n_meta_items, membership) ==
    LET weight == compute_meta_weight(pb, membership, n_meta_items)
        meta_instance == KnapsackInstance(pb.instance.nb_items,
                                          pb.instance.capacity,
                                          weight,
                                          pb.instance.profit)
        meta_problem == [instance |-> meta_instance, order |-> pb.order]
    IN  [n_meta_items |-> n_meta_items,
         membership |-> membership,
         meta_problem |-> meta_problem,
         mapping |-> (0 :> 0) @@ (1 :> 1),
         states |-> compute_meta_states(meta_problem)]

get_compressed_problem(c) == c.meta_problem

(* A variant of compress whose range excludes the capacity of the state. *)
compress_excluded(c, state) ==
    IF state.depth \notin DOMAIN c.states THEN {}
    ELSE LET range == {x \in c.states[state.depth] : x > state.capacity}
         IN  IF range # {} THEN {KnapsackState(state.depth, Min(range))}
             ELSE {state}

(* compress: self.states[state.depth] panics when state.depth is not an    *)
(* index of `states`; range((Included(capacity), Unbounded)).next() is the *)
(* least element >= capacity.                                              *)
compress(c, state) ==
    IF state.depth \notin DOMAIN c.states THEN {}
    ELSE LET range == {x \in c.states[state.depth] : x >= state.capacity}
         IN  IF range # {} THEN {KnapsackState(state.depth, Min(range))}
             ELSE {state}

(* A variant of decompress that returns the decisions in reverse. *)
decompress_reversed(c, solution) ==
    [k \in 1 .. Len(solution) |-> solution[Len(solution) + 1 - k]]

decompress(c, solution) == solution

-----------------------------------------------------------------------------
(* No KnapsackCompression has been built; merge has not been called. *)
NoCompression == [n_meta_items |-> 0]

NoMerge == [states |-> <<>>]

(* The instances read: non-negative weights and profits, zero weights and  *)
(* zero capacity included.                                                 *)
Instances ==
    UNION {{KnapsackInstance(n, c, w, p) :
                c \in 0 .. MaxCapacity,
                w \in [0 .. n - 1 -> 0 .. MaxWeight],
                p \in [0 .. n - 1 -> 0 .. MaxProfit]} : n \in 1 .. MaxItems}

(* The instance of the end-to-end example:                                 *)
(* {nb_items: 3, capacity: 10, weight: [5,4,6], profit: [10,4,9]}.         *)
EndToEndInstance ==
    KnapsackInstance(3, 10, (0 :> 5) @@ (1 :> 4) @@ (2 :> 6),
                            (0 :> 10) @@ (1 :> 4) @@ (2 :> 9))

Init ==
    /\ \E instance \in Instances \cup {EndToEndInstance} :
          problem \in KnapsackNew(instance)
    /\ depth = 0
    /\ layer = root_layer(problem)
    /\ compression = NoCompression
    /\ meta_depth = 0
    /\ meta_layer = {}
    /\ compressed = <<>>
    /\ merged = NoMerge

(* The solver compiles the next layer of the problem's diagram. *)
ExpandLayer ==
    /\ \E var \in next_variable(problem, depth) :
          layer' = next_layer(problem, var, layer)
    /\ depth' = depth + 1

Expand ==
    /\ ExpandLayer
    /\ UNCHANGED <<problem, compression, meta_depth, meta_layer, compressed, merged>>

Next == Expand

Spec == Init /\ [][Next]_vars

-----------------------------------------------------------------------------
(* The relaxation on its own: the engine merges a sequence of states that  *)
(* share a depth.  merge reads its states and pb.instance.capacity only,   *)
(* so the problems are those of unit items.                                *)

UnitInstances ==
    {KnapsackInstance(n, c, [i \in 0 .. n - 1 |-> 1], [i \in 0 .. n - 1 |-> 1]) :
        n \in 1 .. MaxItems, c \in 0 .. MaxCapacity}

InitRelax ==
    /\ \E instance \in UnitInstances : problem \in KnapsackNew(instance)
    /\ depth = 0
    /\ layer = root_layer(problem)
    /\ compression = NoCompression
    /\ meta_depth = 0
    /\ meta_layer = {}
    /\ compressed = <<>>
    /\ merged = NoMerge

Merge ==
    /\ \E d \in 0 .. problem.instance.nb_items :
       \E caps \in SeqsUpTo(0 .. problem.instance.capacity, MaxMerge) \ {<<>>} :
          LET states == [k \in 1 .. Len(caps) |-> KnapsackState(d, caps[k])]
          IN  merged' = [states |-> states, result |-> merge(problem, states)]
    /\ UNCHANGED <<problem, depth, layer, compression, meta_depth, meta_layer, compressed>>

NextRelax == Merge

SpecRelax == InitRelax /\ [][NextRelax]_vars

-----------------------------------------------------------------------------
(* The compression: KnapsackCompression::new is run on the problem; the    *)
(* solver then compiles the diagram of the meta-problem                    *)
(* (get_compressed_problem) and the one of the original problem, and       *)
(* compresses the states that come in.                                     *)

(* The capacities of the states handed to compress: any integer, here from *)
(* below 0 to above the instance capacity.                                 *)
IncomingCapacities(pb) == -1 .. pb.instance.capacity + 1

compress_incoming(pb, c, d) ==
    [cap \in IncomingCapacities(pb) |->
        LET once == compress(c, KnapsackState(d, cap))
        IN  [once |-> once,
             twice |-> UNION {compress(c, s) : s \in once}]]

(* Instances of positive weights and profits, as the generator's default   *)
(* ranges give (the profits, which the compression reads through the order *)
(* only, are the least and the largest one).                               *)
PositiveInstances ==
    UNION {{KnapsackInstance(n, c, w, p) :
                c \in 0 .. MaxCapacity,
                w \in [0 .. n - 1 -> 1 .. MaxWeight],
                p \in [0 .. n - 1 -> {1, MaxProfit}]} : n \in 1 .. MaxItems}

InitCompression ==
    /\ \E instance \in PositiveInstances : problem \in KnapsackNew(instance)
    /\ depth = 0
    /\ layer = root_layer(problem)
    /\ compression = NoCompression
    /\ meta_depth = 0
    /\ meta_layer = {}
    /\ compressed = <<>>
    /\ merged = NoMerge

(* KnapsackCompression::new(problem, n_meta_items), for any membership the *)
(* clustering may return; the solver then holds the root of the            *)
(* meta-problem's diagram and compresses the states of depth 0.            *)
NewCompression ==
    /\ compression = NoCompression
    /\ \E n_meta_items \in 1 .. problem.instance.nb_items :
       \E membership \in [0 .. problem.instance.nb_items - 1 -> 0 .. n_meta_items - 1] :
          compression' = KnapsackCompressionNew(problem, n_meta_items, membership)
    /\ meta_depth' = 0
    /\ meta_layer' = root_layer(get_compressed_problem(compression'))
    /\ compressed' = compress_incoming(problem, compression', 0)
    /\ UNCHANGED <<problem, depth, layer, merged>>

(* The solver compiles the next layer of the meta-problem's diagram; the   *)
(* states that come in at that depth are compressed.                       *)
ExpandMetaLayer ==
    /\ \E var \in next_variable(get_compressed_problem(compression), meta_depth) :
          meta_layer' = next_layer(get_compressed_problem(compression), var, meta_layer)
    /\ meta_depth' = meta_depth + 1
    /\ compressed' = compress_incoming(problem, compression, meta_depth + 1)

(* Both diagrams are compiled layer for layer: the one of the original     *)
(* problem and the one of the compressed problem.                          *)
ExpandCompressed ==
    /\ compression # NoCompression
    /\ ExpandLayer
    /\ ExpandMetaLayer
    /\ UNCHANGED <<problem, compression, merged>>

NextCompression == NewCompression \/ ExpandCompressed

SpecCompression == InitCompression /\ [][NextCompression]_vars

-----------------------------------------------------------------------------
(* Definitions the properties are stated with. *)

(* The best total of transition_cost over all paths from `state` to the    *)
(* terminal depth, each step a decision of for_each_in_domain for the      *)
(* variable of next_variable.                                              *)
RECURSIVE best_completion(_, _)
best_completion(pb, state) ==
    IF next_variable(pb, state.depth) = {} THEN 0
    ELSE LET var == CHOOSE v \in next_variable(pb, state.depth) : TRUE
         IN  Max({transition_cost(pb, state, d)
                      + best_completion(pb, transition(pb, state, d)) :
                  d \in for_each_in_domain(pb, var, state)})

(* The 0/1 knapsack optimum of an instance, by enumeration of the item sets. *)
knapsack_optimum(instance) ==
    Max({Sum(instance.profit, items) :
            items \in {I \in SUBSET (0 .. instance.nb_items - 1) :
                          Sum(instance.weight, I) <= instance.capacity}})

(* The items a path takes. *)
taken(path) == {path[k].variable : k \in {j \in 1 .. Len(path) : path[j].value = 1}}

Terminal == next_variable(problem, depth) = {}

MetaTerminal ==
    /\ compression # NoCompression
    /\ next_variable(get_compressed_problem(compression), meta_depth) = {}

(* The state a problem is in after the first k decisions of a path, each   *)
(* applied by transition (whether or not the problem offers it).           *)
RECURSIVE state_after(_, _, _)
state_after(pb, path, k) ==
    IF k = 0 THEN initial_state(pb)
    ELSE transition(pb, state_after(pb, path, k - 1), path[k])

(* Every decision of the path is one for_each_in_domain offers, for the    *)
(* variable next_variable gives, in the state the path has led to.         *)
valid_for(pb, path) ==
    \A k \in 1 .. Len(path) :
        \E var \in next_variable(pb, k - 1) :
            path[k] \in for_each_in_domain(pb, var, state_after(pb, path, k - 1))

RECURSIVE path_cost(_, _, _)
path_cost(pb, path, k) ==
    IF k = 0 THEN initial_value(pb)
    ELSE path_cost(pb, path, k - 1)
            + transition_cost(pb, state_after(pb, path, k - 1), path[k])

(* The items of i's cluster. *)
cluster(c, i) == {k \in DOMAIN c.membership : c.membership[k] = c.membership[i]}

(* The capacities the meta-problem's transition system reaches at the      *)
(* depth of the layer the engine has compiled.                             *)
meta_reached == {node.state.capacity : node \in meta_layer}

-----------------------------------------------------------------------------
(* C2: for every state reachable from initial_state() by                   *)
(* for_each_in_domain/transition steps, of any instance with non-negative  *)
(* weights (zero weights and zero capacity included), fast_upper_bound is  *)
(* at least the best total profit of a completion from that state.         *)
C2_Admissible ==
    \A node \in layer : node.rub >= best_completion(problem, node.state)

(* C3: every state reachable from initial_state() by decisions of          *)
(* for_each_in_domain has a capacity between 0 and the instance capacity,  *)
(* value 1 having been taken only in states of capacity >= the weight.     *)
C3_CapacityInRange ==
    \A node \in layer :
        /\ node.state.capacity >= 0
        /\ node.state.capacity <= problem.instance.capacity
        /\ \A k \in 1 .. Len(node.path) :
              node.path[k].value = 1 =>
                  state_after(problem, node.path, k - 1).capacity
                      >= problem.instance.weight[node.path[k].variable]

(* C3's case: an item of positive weight has been taken. *)
C3_Witness ==
    \E node \in layer :
        /\ \E i \in taken(node.path) : problem.instance.weight[i] > 0
        /\ node.state.capacity < problem.instance.capacity

(* C8: the best accumulated cost over the complete paths of the exact      *)
(* model is the 0/1 knapsack optimum of the instance; for the end-to-end   *)
(* instance the order is [0,2,1] and the best cost is 14, attained by      *)
(* taking items 0 and 1 and not item 2.                                    *)
C8_ExactOptimum ==
    /\ Terminal =>
          Max({node.value : node \in layer}) = knapsack_optimum(problem.instance)
    /\ problem.instance = EndToEndInstance =>
          /\ problem.order = (0 :> 0) @@ (1 :> 2) @@ (2 :> 1)
          /\ Terminal =>
                /\ Max({node.value : node \in layer}) = 14
                /\ \E node \in layer : node.value = 14 /\ taken(node.path) = {0, 1}

(* C8's case: the diagram of the end-to-end instance is complete. *)
C8_Witness ==
    /\ problem.instance = EndToEndInstance
    /\ Terminal
    /\ \E node \in layer : node.value = 14

(* C9: the order is a permutation of the items, next_variable gives none   *)
(* exactly at depth nb_items, and every path of the layer at depth d has   *)
(* made exactly d transitions, deciding order[0..d) once each, its state's *)
(* depth being d.                                                          *)
C9_OneVariablePerDepth ==
    /\ problem.order \in ItemPermutations(problem.instance.nb_items)
    /\ depth <= nb_variables(problem)
    /\ Terminal <=> depth = nb_variables(problem)
    /\ layer # {}
    /\ \A node \in layer :
          /\ node.state.depth = depth
          /\ Len(node.path) = depth
          /\ \A k \in 1 .. depth : node.path[k].variable = problem.order[k - 1]
          /\ \A j, k \in 1 .. depth :
                j # k => node.path[j].variable # node.path[k].variable
          /\ Terminal =>
                {node.path[k].variable : k \in 1 .. depth}
                    = 0 .. problem.instance.nb_items - 1

(* C9's case: a complete path of an instance with several items. *)
C9_Witness ==
    /\ Terminal
    /\ problem.instance.nb_items > 1
    /\ \E node \in layer : Len(node.path) = problem.instance.nb_items

-----------------------------------------------------------------------------
(* C1: merge of a non-empty collection of states sharing a depth returns   *)
(* that depth and the maximum capacity over all the states.                *)
C1_MergeIsMaximum ==
    merged # NoMerge =>
        /\ merged.result.depth = merged.states[1].depth
        /\ merged.result.capacity
              = Max({merged.states[k].capacity : k \in 1 .. Len(merged.states)})

-----------------------------------------------------------------------------
(* C4: at every depth d in 0..=nb_items, compress of a state of depth d    *)
(* returns the state of depth d with the least capacity >= its own among   *)
(* those the meta-problem reaches at depth d, or the state itself when     *)
(* there is none.                                                          *)
C4_CompressSnapsToReached ==
    \A cap \in DOMAIN compressed :
        LET above == {x \in meta_reached : x >= cap}
        IN  compressed[cap].once
              = {KnapsackState(meta_depth, IF above # {} THEN Min(above) ELSE cap)}

(* C5: a complete decision sequence valid for the meta-problem is, after   *)
(* decompress, valid for the original problem.                             *)
C5_MetaValidIsValid ==
    MetaTerminal =>
        \A node \in meta_layer :
            valid_for(problem, decompress(compression, node.path))

(* C5, amended: a complete decision sequence valid for the meta-problem    *)
(* is, after decompress, a 0/1 decision sequence of the original problem   *)
(* on the same variables in the same order and of the same cost; replayed  *)
(* on the original problem its capacity is at every depth at most the      *)
(* meta-problem's, and it is valid for the original problem exactly when   *)
(* the true weights of the chosen items fit the capacity.                  *)
C5_DecompressedReplay ==
    MetaTerminal =>
      \A node \in meta_layer :
        LET solution == decompress(compression, node.path)
            n == Len(solution)
        IN  /\ n = nb_variables(problem)
            /\ \A k \in 1 .. n :
                  /\ solution[k].variable = problem.order[k - 1]
                  /\ solution[k].value \in {0, 1}
                  /\ state_after(problem, solution, k).capacity
                        <= state_after(get_compressed_problem(compression),
                                       node.path, k).capacity
            /\ state_after(get_compressed_problem(compression), node.path, n)
                  = node.state
            /\ path_cost(problem, solution, n) = node.value
            /\ valid_for(problem, solution)
                  <=> Sum(problem.instance.weight, taken(solution))
                          <= problem.instance.capacity

(* C5's case: a complete path of the meta-problem takes an item that is    *)
(* heavier than its cluster's minimum.                                     *)
C5_Witness ==
    /\ MetaTerminal
    /\ \E node \in meta_layer :
       \E i \in taken(node.path) :
          compression.meta_problem.instance.weight[i] < problem.instance.weight[i]

(* C6: every complete decision sequence feasible in the true problem is    *)
(* feasible in the meta-problem: each of its steps is offered by the       *)
(* meta-problem's for_each_in_domain, and the meta capacity along the path *)
(* is at least the true capacity at the same depth.                        *)
C6_FeasibleStaysFeasible ==
    (compression # NoCompression /\ Terminal) =>
        \A node \in layer :
            /\ valid_for(problem, node.path)
            /\ valid_for(get_compressed_problem(compression), node.path)
            /\ \A k \in 0 .. Len(node.path) :
                  state_after(get_compressed_problem(compression), node.path, k).capacity
                      >= state_after(problem, node.path, k).capacity

(* C6's case: a complete feasible path of the true problem takes an item   *)
(* whose meta-weight is smaller than its weight.                           *)
C6_Witness ==
    /\ compression # NoCompression
    /\ Terminal
    /\ \E node \in layer :
       \E i \in taken(node.path) :
          compression.meta_problem.instance.weight[i] < problem.instance.weight[i]

(* C7: the meta-weight of every item is the minimum true weight of its     *)
(* cluster, so at most the true weight of every item of the cluster; the   *)
(* meta-instance keeps nb_items, capacity, profit and the order.           *)
C7_MetaWeightIsClusterMinimum ==
    compression # NoCompression =>
        LET meta == compression.meta_problem
        IN  /\ DOMAIN meta.instance.weight = 0 .. problem.instance.nb_items - 1
            /\ \A i \in 0 .. problem.instance.nb_items - 1 :
                  /\ \A k \in cluster(compression, i) :
                        meta.instance.weight[i] <= problem.instance.weight[k]
                  /\ \E k \in cluster(compression, i) :
                        meta.instance.weight[i] = problem.instance.weight[k]
            /\ meta.instance.nb_items = problem.instance.nb_items
            /\ meta.instance.capacity = problem.instance.capacity
            /\ meta.instance.profit = problem.instance.profit
            /\ meta.order = problem.order

(* C7's case: a cluster holds items of different weights. *)
C7_Witness ==
    /\ compression # NoCompression
    /\ \E i \in 0 .. problem.instance.nb_items - 1 :
       \E k \in cluster(compression, i) :
          problem.instance.weight[i] < problem.instance.weight[k]

(* C10: compress is idempotent on the states of a depth below nb_items,    *)
(* whatever their capacity, and a state it changes gets a capacity of the  *)
(* reachable-capacity index of its depth.                                  *)
C10_CompressIdempotent ==
    (compression # NoCompression /\ meta_depth < problem.instance.nb_items) =>
        \A cap \in DOMAIN compressed :
            /\ compressed[cap].once # {}
            /\ compressed[cap].twice = compressed[cap].once
            /\ \A s \in compressed[cap].once :
                  /\ s.depth = meta_depth
                  /\ s # KnapsackState(meta_depth, cap) =>
                        s.capacity \in compression.states[meta_depth]

(* C10's case: compress has changed a state, at a depth where the index    *)
(* holds several capacities.                                               *)
C10_Witness ==
    /\ compression # NoCompression
    /\ meta_depth > 0
    /\ meta_depth < problem.instance.nb_items
    /\ Cardinality(compression.states[meta_depth]) > 1
    /\ \E cap \in DOMAIN compressed :
          /\ compressed[cap].once # {KnapsackState(meta_depth, cap)}
          /\ compressed[cap].once # {}

=============================================================================
